---- MODULE Spec2Model ----
(***************************************************************************)
(* Astronomy-Explorer MCP server (src/server.py): ten tools that build an  *)
(* ADQL query from their arguments, submit it to the remote TAP service    *)
(* and return a JSON envelope.  One invocation is modelled in two steps:   *)
(* the tool's code up to service.search(query) (validation, escaping,      *)
(* query building, submission), and its code from the remote outcome to    *)
(* the return statement.                                                   *)
(*                                                                         *)
(* Units.  Catalog numbers are floats in the program; here they are        *)
(* fixed-point integers: masses and radii in hundredths of the Earth's,    *)
(* orbital periods in hundredths of a day, velocities in hundredths of a   *)
(* km/s, ratios and years in hundredths.                                   *)
(***************************************************************************)
EXTENDS Integers, Sequences, FiniteSets, TLC

VARIABLES
    pc,            \* "idle", "submitted" (inside service.search), "returned"
    tool,          \* the tool invoked
    args,          \* its arguments
    query,         \* the query built from them
    descripcion,   \* the description passed along with the query
    submissions,   \* queries submitted to the remote service in this invocation
    remote,        \* how the remote call ended: "none" yet, "rows", or the fault
    df,            \* the rows the remote service answered with
    v_escape_kms,  \* calcular_velocidad_escape's unrounded velocity
    result         \* what the invocation returned (or raised)

vars == <<pc, tool, args, query, descripcion, submissions, remote, df, v_escape_kms, result>>

\* ------------------------------------------------------------------ bounds

\* Longest user-supplied string drawn as an input.
MaxLen == 2

\* Most rows the remote service answers with.
MaxRows == 2

\* ------------------------------------------------------------- input sets

Chars == {"a", "'", " "}

RECURSIVE StringsOfLen(_)
StringsOfLen(n) ==
    IF n = 0 THEN {<<>>}
    ELSE {<<c>> \o s : c \in Chars, s \in StringsOfLen(n - 1)}

Strings == UNION {StringsOfLen(n) : n \in 0..MaxLen}

\* Optional[...] parameters and nullable catalog columns.
None == [null |-> TRUE, v |-> 0]
Some(x) == [null |-> FALSE, v |-> x]

\* The same for strings and lists.
NoneStr == [null |-> TRUE, v |-> <<>>]

\* Values tried for the count/limit parameters: both sides of 0 and of each
\* tool's maximum.
NumeroInputs == {-1, 0, 1, 2, 100, 101, 200, 201, 500, 501}

\* pl_masse values (hundredths of an Earth mass), null included.
MasaInputs ==
    {None} \cup {Some(m) : m \in {-100, 0, 20, 49, 50, 100, 200, 201, 967, 968,
                                  1000, 1001, 1151, 1438, 1439}}

\* pl_rade values (hundredths of an Earth radius), null included.
RadioInputs == {None} \cup {Some(r) : r \in {0, 40, 100, 200, 1000}}

\* pl_orbper values (hundredths of a day), null included.
PeriodoInputs == {None, Some(36525), Some(73050)}

CatalogRows ==
    [pl_masse : MasaInputs, pl_rade : RadioInputs, pl_orbper : PeriodoInputs]

\* Rows of no particular interest, used to fill a result set.
PlainRows ==
    {[pl_masse |-> Some(100), pl_rade |-> Some(100), pl_orbper |-> Some(36525)],
     [pl_masse |-> None, pl_rade |-> None, pl_orbper |-> None]}

RECURSIVE PlainSeqs(_)
PlainSeqs(n) ==
    IF n = 0 THEN {<<>>}
    ELSE {<<r>> \o s : r \in PlainRows, s \in PlainSeqs(n - 1)}

\* Result sets answered to the tools that only normalize.
PlainResultSets == UNION {PlainSeqs(n) : n \in 0..MaxRows}

\* Result sets answered to the two derivation tools: the first row is any
\* catalog row, the others are filler.
DerivationResultSets ==
    {<<>>} \cup
    UNION {{<<r>> \o s : r \in CatalogRows, s \in PlainSeqs(n)} : n \in 0..(MaxRows - 1)}

\* ------------------------------------------------------- strings and text

\* str.strip(): leading and trailing whitespace removed.
RECURSIVE lstrip(_)
lstrip(s) ==
    IF s # <<>> /\ Head(s) = " " THEN lstrip(Tail(s)) ELSE s

RECURSIVE rstrip(_)
rstrip(s) ==
    IF s # <<>> /\ s[Len(s)] = " " THEN rstrip(SubSeq(s, 1, Len(s) - 1)) ELSE s

strip(s) == rstrip(lstrip(s))

\* A buggy variant of replace: only the first occurrence is replaced.
RECURSIVE replace_first(_, _, _)
replace_first(s, old, new) ==
    IF s = <<>> THEN <<>>
    ELSE IF Head(s) = old THEN new \o Tail(s)
    ELSE <<Head(s)>> \o replace_first(Tail(s), old, new)

\* str.replace(old, new) for a one-character old: every occurrence, left to
\* right, is replaced by new.
RECURSIVE replace(_, _, _)
replace(s, old, new) ==
    IF s = <<>> THEN <<>>
    ELSE (IF Head(s) = old THEN new ELSE <<Head(s)>>) \o replace(Tail(s), old, new)

\* An f-string: its fixed text, and the strings and numbers formatted into it.
Texto(text, strs, nums) == [text |-> text, strs |-> strs, nums |-> nums]

\* --------------------------------------------------------------- validator

\* A buggy variant of validar_numero_positivo: 0 is let through.
validar_numero_positivo_cero(valor, nombre_parametro, maximo) ==
    IF valor < 0
    THEN [raised |-> TRUE,
          e |-> Texto("debe ser mayor a 0, recibido", <<nombre_parametro>>, <<valor>>)]
    ELSE IF valor > maximo
    THEN [raised |-> TRUE,
          e |-> Texto("no puede exceder, recibido", <<nombre_parametro>>, <<maximo, valor>>)]
    ELSE [raised |-> FALSE, e |-> Texto("", <<>>, <<>>)]

\* validar_numero_positivo: raises ValueError (raised, with str(e)) or returns.
validar_numero_positivo(valor, nombre_parametro, maximo) ==
    IF valor <= 0
    THEN [raised |-> TRUE,
          e |-> Texto("debe ser mayor a 0, recibido", <<nombre_parametro>>, <<valor>>)]
    ELSE IF valor > maximo
    THEN [raised |-> TRUE,
          e |-> Texto("no puede exceder, recibido", <<nombre_parametro>>, <<maximo, valor>>)]
    ELSE [raised |-> FALSE, e |-> Texto("", <<>>, <<>>)]

\* A buggy variant of nombre_vacio: the whitespace test is forgotten.
nombre_vacio_sin_strip(nombre) == nombre = <<>>

\* `not nombre or not nombre.strip()`: the name test of the three name tools.
nombre_vacio(nombre) == nombre = <<>> \/ strip(nombre) = <<>>

\* A buggy variant of error_de_validacion: the ValueError is not caught.
error_de_validacion_sin_except(e) == [raised |-> "ValueError", message |-> e]

\* `except ValueError as e: return json.dumps({"status": "error", "message": str(e)})`
error_de_validacion(e) == [status |-> "error", message |-> e]

\* json.dumps({"status": "error", "message": "El nombre no puede estar vacío"})
error_nombre_vacio ==
    [status |-> "error", message |-> Texto("El nombre no puede estar vacio", <<>>, <<>>)]

\* The maxima the row-limited tools pass to validar_numero_positivo.
MaximoMasivos == 500
MaximoHabitables == 100
MaximoMetodo == 200
MaximoCercanos == 100
MaximoAvanzada == 200

\* ----------------------------------------------------------- query builder

\* One predicate of a WHERE clause: a comparison with a number (kind "num"),
\* with a quoted string literal (kind "str"), or a fixed one (kind "fixed").
PredNum(col, op, num) == [col |-> col, op |-> op, kind |-> "num", num |-> num, lit |-> <<>>]
PredStr(col, op, lit) == [col |-> col, op |-> op, kind |-> "str", num |-> 0, lit |-> lit]
PredFixed(col, op) == [col |-> col, op |-> op, kind |-> "fixed", num |-> 0, lit |-> <<>>]

\* A query: its template, the predicates of its (inner) WHERE clause in
\* order, and the number of the outer ROWNUM clause, if it has one.
Query(shape, where, rownum) == [shape |-> shape, where |-> where, rownum |-> rownum]

NoQuery == [shape |-> "none", where |-> <<>>, rownum |-> None]

NoResult == [pending |-> TRUE]

NoArgs == [none |-> TRUE]

\* ------------------------------------------------- the tools, up to search

\* The invocation returns `envelope` without having built a query.
ReturnEarly(t, a, envelope) ==
    /\ pc' = "returned"
    /\ tool' = t
    /\ args' = a
    /\ query' = NoQuery
    /\ descripcion' = Texto("", <<>>, <<>>)
    /\ submissions' = 0
    /\ remote' = "none"
    /\ df' = <<>>
    /\ v_escape_kms' = None
    /\ result' = envelope

\* service.search(query): the query is submitted and the invocation waits
\* for the remote service.
Search(t, a, q, d) ==
    /\ pc' = "submitted"
    /\ tool' = t
    /\ args' = a
    /\ query' = q
    /\ descripcion' = d
    /\ submissions' = 0 + 1
    /\ remote' = "none"
    /\ df' = <<>>
    /\ v_escape_kms' = None
    /\ result' = NoResult

\* The server invokes a tool when no invocation is under way.
Ready == pc = "idle"

buscar_datos_exoplaneta ==
    /\ Ready
    /\ \E nombre \in Strings :
          LET a == [nombre |-> nombre]
              nombre_escapado == replace(nombre, "'", <<"'", "'">>)
          IN  IF nombre_vacio(nombre)
              THEN ReturnEarly("buscar_datos_exoplaneta", a, error_nombre_vacio)
              ELSE Search("buscar_datos_exoplaneta", a,
                          Query("select", <<PredStr("pl_name", "=", nombre_escapado)>>, None),
                          Texto("exoplaneta", <<nombre>>, <<>>))

listar_exoplanetas_mas_masivos ==
    /\ Ready
    /\ \E numero_planetas \in NumeroInputs :
          LET a == [numero_planetas |-> numero_planetas]
              val == validar_numero_positivo(numero_planetas, "numero_planetas", MaximoMasivos)
          IN  IF val.raised
              THEN ReturnEarly("listar_exoplanetas_mas_masivos", a, error_de_validacion(val.e))
              ELSE Search("listar_exoplanetas_mas_masivos", a,
                          Query("limited", <<PredFixed("pl_masse", "IS NOT NULL")>>,
                                Some(numero_planetas)),
                          Texto("top exoplanetas mas masivos", <<>>, <<numero_planetas>>))

buscar_planetas_habitables ==
    /\ Ready
    /\ \E numero_planetas \in NumeroInputs :
          LET a == [numero_planetas |-> numero_planetas]
              val == validar_numero_positivo(numero_planetas, "numero_planetas", MaximoHabitables)
          IN  IF val.raised
              THEN ReturnEarly("buscar_planetas_habitables", a, error_de_validacion(val.e))
              ELSE Search("buscar_planetas_habitables", a,
                          Query("limited",
                                <<PredFixed("pl_masse", "IS NOT NULL"),
                                  PredFixed("pl_orbper", "IS NOT NULL"),
                                  PredFixed("pl_eqt", "IS NOT NULL"),
                                  PredFixed("pl_masse", "> 0.5"),
                                  PredFixed("pl_masse", "< 10.0"),
                                  PredFixed("pl_orbper", "> 200.0"),
                                  PredFixed("pl_orbper", "< 500.0"),
                                  PredFixed("pl_eqt", "> 200"),
                                  PredFixed("pl_eqt", "< 320")>>,
                                Some(numero_planetas)),
                          Texto("planetas potencialmente habitables", <<>>, <<>>))

buscar_por_metodo_descubrimiento ==
    /\ Ready
    /\ \E metodo \in Strings, limite \in NumeroInputs :
          LET a == [metodo |-> metodo, limite |-> limite]
              val == validar_numero_positivo(limite, "limite", MaximoMetodo)
              metodo_escapado == replace(metodo, "'", <<"'", "'">>)
          IN  IF val.raised
              THEN ReturnEarly("buscar_por_metodo_descubrimiento", a, error_de_validacion(val.e))
              ELSE Search("buscar_por_metodo_descubrimiento", a,
                          Query("limited",
                                <<PredStr("discoverymethod", "=", metodo_escapado)>>,
                                Some(limite)),
                          Texto("exoplanetas descubiertos por", <<metodo>>, <<>>))

exoplanetas_mas_cercanos ==
    /\ Ready
    /\ \E numero_planetas \in NumeroInputs :
          LET a == [numero_planetas |-> numero_planetas]
              val == validar_numero_positivo(numero_planetas, "numero_planetas", MaximoCercanos)
          IN  IF val.raised
              THEN ReturnEarly("exoplanetas_mas_cercanos", a, error_de_validacion(val.e))
              ELSE Search("exoplanetas_mas_cercanos", a,
                          Query("limited", <<PredFixed("sy_dist", "IS NOT NULL")>>,
                                Some(numero_planetas)),
                          Texto("top exoplanetas mas cercanos", <<>>, <<numero_planetas>>))

estadisticas_metodos_descubrimiento ==
    /\ Ready
    /\ Search("estadisticas_metodos_descubrimiento", NoArgs,
              Query("grouped", <<PredFixed("discoverymethod", "IS NOT NULL")>>, None),
              Texto("estadisticas de metodos de descubrimiento", <<>>, <<>>))

\* Values tried for the optional year parameters; 0 is a supplied value that
\* Python treats as false.
AnioInputs == {None, Some(0), Some(2010)}

\* Python truthiness of an Optional[int] and of an Optional[str].
truthy_int(o) == ~o.null /\ o.v # 0
truthy_str(o) == ~o.null /\ o.v # <<>>

\* condiciones.append(...) under `if c`.
append_if(c, pred) == IF c THEN <<pred>> ELSE <<>>

timeline_descubrimientos ==
    /\ Ready
    /\ \E anio_inicio \in AnioInputs, anio_fin \in AnioInputs :
          LET a == [anio_inicio |-> anio_inicio, anio_fin |-> anio_fin]
              condiciones ==
                  append_if(truthy_int(anio_inicio), PredNum("disc_year", ">=", anio_inicio.v))
                  \o append_if(truthy_int(anio_fin), PredNum("disc_year", "<=", anio_fin.v))
          IN  Search("timeline_descubrimientos", a,
                     Query("grouped", condiciones, None),
                     Texto("timeline de descubrimientos", <<>>, <<>>))

\* Values tried for busqueda_avanzada's optional filters.
MasaMinInputs == {None, Some(100)}
MasaMaxInputs == {None, Some(1000)}
PeriodoMinInputs == {None, Some(20000)}
PeriodoMaxInputs == {None, Some(40000)}
DistanciaMaxInputs == {None, Some(0)}
MetodoInputs ==
    {NoneStr} \cup {Some(s) : s \in StringsOfLen(0) \cup StringsOfLen(1)}
    \cup {Some(<<"'", "'">>)}
LocaleInputs == {NoneStr, Some(<<>>), Some(<<"'">>)}
LimiteInputs == {0, 1, 200, 201}

busqueda_avanzada ==
    /\ Ready
    /\ \E masa_min \in MasaMinInputs, masa_max \in MasaMaxInputs,
          periodo_min \in PeriodoMinInputs, periodo_max \in PeriodoMaxInputs,
          distancia_max \in DistanciaMaxInputs, anio_descubrimiento_min \in AnioInputs,
          metodo \in MetodoInputs, locale \in LocaleInputs, limite \in LimiteInputs :
          LET a == [masa_min |-> masa_min, masa_max |-> masa_max,
                    periodo_min |-> periodo_min, periodo_max |-> periodo_max,
                    distancia_max |-> distancia_max,
                    anio_descubrimiento_min |-> anio_descubrimiento_min,
                    metodo |-> metodo, locale |-> locale, limite |-> limite]
              val == validar_numero_positivo(limite, "limite", MaximoAvanzada)
              metodo_escapado == replace(metodo.v, "'", <<"'", "'">>)
              locale_escapado == replace(locale.v, "'", <<"'", "'">>)
              condiciones ==
                  append_if(~masa_min.null, PredNum("pl_masse", ">=", masa_min.v))
                  \o append_if(~masa_max.null, PredNum("pl_masse", "<=", masa_max.v))
                  \o append_if(~periodo_min.null, PredNum("pl_orbper", ">=", periodo_min.v))
                  \o append_if(~periodo_max.null, PredNum("pl_orbper", "<=", periodo_max.v))
                  \o append_if(~distancia_max.null, PredNum("sy_dist", "<=", distancia_max.v))
                  \o append_if(~anio_descubrimiento_min.null,
                               PredNum("disc_year", ">=", anio_descubrimiento_min.v))
                  \o append_if(truthy_str(metodo),
                               PredStr("discoverymethod", "=", metodo_escapado))
                  \o append_if(truthy_str(locale), PredStr("disc_locale", "=", locale_escapado))
          IN  IF val.raised
              THEN ReturnEarly("busqueda_avanzada", a, error_de_validacion(val.e))
              ELSE Search("busqueda_avanzada", a,
                          Query("limited", condiciones, Some(limite)),
                          Texto("busqueda avanzada personalizada", <<>>, <<>>))

comparar_con_tierra ==
    /\ Ready
    /\ \E nombre_exoplaneta \in Strings :
          LET a == [nombre |-> nombre_exoplaneta]
              nombre_escapado == replace(nombre_exoplaneta, "'", <<"'", "'">>)
          IN  IF nombre_vacio(nombre_exoplaneta)
              THEN ReturnEarly("comparar_con_tierra", a, error_nombre_vacio)
              ELSE Search("comparar_con_tierra", a,
                          Query("select", <<PredStr("pl_name", "=", nombre_escapado)>>, None),
                          Texto("el exoplaneta", <<nombre_exoplaneta>>, <<>>))

calcular_velocidad_escape ==
    /\ Ready
    /\ \E nombre_exoplaneta \in Strings :
          LET a == [nombre |-> nombre_exoplaneta]
              nombre_escapado == replace(nombre_exoplaneta, "'", <<"'", "'">>)
          IN  IF nombre_vacio(nombre_exoplaneta)
              THEN ReturnEarly("calcular_velocidad_escape", a, error_nombre_vacio)
              ELSE Search("calcular_velocidad_escape", a,
                          Query("select", <<PredStr("pl_name", "=", nombre_escapado)>>, None),
                          Texto("el exoplaneta", <<nombre_exoplaneta>>, <<>>))

\* ---------------------------------------------- the remote service's answer

\* What service.search(query) and results.to_table().to_pandas() come to: the
\* rows, a DALServiceError, or any other exception.
RemoteOutcome(fault, rs) == [fault |-> fault, rows |-> rs]

Faults == {"DALServiceError", "Exception"}

PlainOutcomes ==
    {RemoteOutcome("none", rs) : rs \in PlainResultSets}
    \cup {RemoteOutcome(f, <<>>) : f \in Faults}

DerivationOutcomes ==
    {RemoteOutcome("none", rs) : rs \in DerivationResultSets}
    \cup {RemoteOutcome(f, <<>>) : f \in Faults}

\* A buggy variant of Return: a failed submission is submitted once more
\* before the error is returned.
Return_con_reintento(o, v, envelope) ==
    /\ pc' = "returned"
    /\ remote' = (IF o.fault = "none" THEN "rows" ELSE o.fault)
    /\ df' = o.rows
    /\ v_escape_kms' = v
    /\ result' = envelope
    /\ submissions' = (IF o.fault = "none" THEN submissions ELSE submissions + 1)
    /\ UNCHANGED <<tool, args, query, descripcion>>

\* The invocation returns `envelope`, the remote call having ended as `o`.
Return(o, v, envelope) ==
    /\ pc' = "returned"
    /\ remote' = (IF o.fault = "none" THEN "rows" ELSE o.fault)
    /\ df' = o.rows
    /\ v_escape_kms' = v
    /\ result' = envelope
    /\ UNCHANGED <<tool, args, query, descripcion, submissions>>

\* --------------------------------------------------------- result normalizer

\* A buggy variant of envelope_de_resultados: the count is off by one.
envelope_de_resultados_menos_uno(rs, d) ==
    IF Len(rs) <= 1
    THEN [status |-> "empty",
          message |-> Texto("No se encontraron resultados para", <<d>>, <<>>),
          data |-> <<>>]
    ELSE [status |-> "success", count |-> Len(rs) - 1, data |-> rs]

\* The try block of ejecutar_query_segura once the rows are there: `empty`
\* for an empty frame, `success` with the row count and the rows otherwise.
envelope_de_resultados(rs, d) ==
    IF Len(rs) = 0
    THEN [status |-> "empty",
          message |-> Texto("No se encontraron resultados para", <<d>>, <<>>),
          data |-> <<>>]
    ELSE [status |-> "success", count |-> Len(rs), data |-> rs]

\* except vo.dal.DALServiceError
error_de_servicio ==
    [status |-> "error", error_type |-> "service_error",
     message |-> Texto("Error en el servicio TAP", <<>>, <<>>)]

\* except Exception
error_inesperado ==
    [status |-> "error", error_type |-> "unknown",
     message |-> Texto("Error inesperado", <<>>, <<>>)]

\* The tools that hand their query to ejecutar_query_segura.
NormalizerTools ==
    {"buscar_datos_exoplaneta", "listar_exoplanetas_mas_masivos",
     "buscar_planetas_habitables", "buscar_por_metodo_descubrimiento",
     "timeline_descubrimientos", "exoplanetas_mas_cercanos", "busqueda_avanzada",
     "estadisticas_metodos_descubrimiento"}

ejecutar_query_segura ==
    /\ pc = "submitted"
    /\ tool \in NormalizerTools
    /\ \E o \in PlainOutcomes :
          Return(o, None,
                 IF o.fault = "none" THEN envelope_de_resultados(o.rows, descripcion)
                 ELSE IF o.fault = "DALServiceError" THEN error_de_servicio
                 ELSE error_inesperado)

\* --------------------------------------------------------- derivation engine

PERIODO_TIERRA_DIAS == 36525

\* round(x, 2) of the quotient num / den of two fixed-point numbers, as
\* hundredths (den > 0, num >= 0).
round2(num, den) == (2 * 100 * num + den) \div (2 * den)

\* data['años_terrestres']: the period in Earth years, None without a period.
anios_terrestres(pl_orbper) ==
    IF ~pl_orbper.null
    THEN Some(round2(pl_orbper.v, PERIODO_TIERRA_DIAS))
    ELSE None

\* A buggy variant of clasificacion_masa: the first bin takes its upper edge.
clasificacion_masa_borde(pl_masse) ==
    IF ~pl_masse.null
    THEN IF pl_masse.v <= 50 THEN <<"Planeta muy ligero (posiblemente rocoso pequeno)">>
         ELSE IF pl_masse.v <= 200 THEN <<"Masa similar a la Tierra (super-Tierra)">>
         ELSE IF pl_masse.v <= 1000 THEN <<"Mini-Neptuno">>
         ELSE <<"Gigante gaseoso">>
    ELSE <<>>

\* The `interpretacion` list of comparar_con_tierra: one note for a mass
\* (compared with 0.5, 2.0 and 10.0 Earth masses), none for a null one.
clasificacion_masa(pl_masse) ==
    IF ~pl_masse.null
    THEN IF pl_masse.v < 50 THEN <<"Planeta muy ligero (posiblemente rocoso pequeno)">>
         ELSE IF pl_masse.v <= 200 THEN <<"Masa similar a la Tierra (super-Tierra)">>
         ELSE IF pl_masse.v <= 1000 THEN <<"Mini-Neptuno">>
         ELSE <<"Gigante gaseoso">>
    ELSE <<>>

\* "; ".join(interpretacion) if interpretacion else None: the notes in
\* order, None for an empty list.
join_or_none(interpretacion) ==
    IF interpretacion # <<>> THEN Some(interpretacion) ELSE NoneStr

\* The try block of comparar_con_tierra once the rows are there.
comparacion(rs, nombre_exoplaneta) ==
    IF Len(rs) = 0
    THEN [status |-> "empty",
          message |-> Texto("No se encontro el exoplaneta", <<nombre_exoplaneta>>, <<>>),
          data |-> <<>>]
    ELSE LET data == rs[1]
         IN  [status |-> "success", count |-> 1,
              data |-> <<[pl_masse |-> data.pl_masse,
                          pl_rade |-> data.pl_rade,
                          pl_orbper |-> data.pl_orbper,
                          anios_terrestres |-> anios_terrestres(data.pl_orbper),
                          interpretacion |->
                              join_or_none(clasificacion_masa(data.pl_masse))]>>]

comparar_con_tierra_resultado ==
    /\ pc = "submitted"
    /\ tool = "comparar_con_tierra"
    /\ \E o \in DerivationOutcomes :
          Return(o, None,
                 IF o.fault = "none" THEN comparacion(o.rows, args.nombre)
                 ELSE error_inesperado)

\* The constants of calcular_velocidad_escape: G = 6.674e-11 as 6674e-14,
\* MASA_TIERRA_KG = 5.972e24 as 5972e21, RADIO_TIERRA_M = 6.371e6 as 6371e3,
\* V_ESCAPE_TIERRA = 11.2 km/s in hundredths.
G == 6674
MASA_TIERRA_KG == 5972
RADIO_TIERRA_M == 6371
V_ESCAPE_TIERRA == 1120

\* math.sqrt, rounded down to a whole number (of hundredths of a km/s).
RECURSIVE sqrt_between(_, _, _)
sqrt_between(x, lo, hi) ==
    IF lo = hi THEN lo
    ELSE LET mid == (lo + hi + 1) \div 2
         IN  IF mid * mid <= x THEN sqrt_between(x, mid, hi)
             ELSE sqrt_between(x, lo, mid - 1)

sqrt(x) == sqrt_between(x, 0, 46340)

\* (2 * G * masa_kg) / radio_m in (0.01 km/s)^2, rounded down, for a mass m
\* and a radius r in hundredths of the Earth's (m >= 0, r > 0):
\* 2 * 6674 * 5972 / 6371 * 100 * m / r, the division by 6371 done first so
\* that no intermediate value leaves 32 bits.
dos_GM_sobre_R(m, r) ==
    LET dosGM == 2 * G * MASA_TIERRA_KG
        q == dosGM \div RADIO_TIERRA_M
        rem == dosGM % RADIO_TIERRA_M
    IN  (q * 100 * m + (rem * 100 * m) \div RADIO_TIERRA_M) \div r

abs(n) == IF n < 0 THEN -n ELSE n

\* v_escape_kms for a row's mass and radius.  Float arithmetic: a NaN operand
\* gives NaN, a zero radius raises ZeroDivisionError (Series.to_dict boxes the
\* row's values as Python floats), a negative quotient makes math.sqrt raise
\* ValueError.
\* `v` is the velocity rounded down to 0.01 km/s, `x` its square.
velocidad_escape(pl_masse, pl_rade) ==
    IF pl_masse.null \/ pl_rade.null
    THEN [exc |-> "none", nan |-> TRUE, v |-> 0, x |-> 0]
    ELSE IF pl_rade.v = 0
    THEN [exc |-> "ZeroDivisionError", nan |-> FALSE, v |-> 0, x |-> 0]
    ELSE IF (pl_masse.v < 0) # (pl_rade.v < 0)
    THEN [exc |-> "ValueError", nan |-> FALSE, v |-> 0, x |-> 0]
    ELSE LET x == dos_GM_sobre_R(abs(pl_masse.v), abs(pl_rade.v))
         IN  [exc |-> "none", nan |-> FALSE, v |-> sqrt(x), x |-> x]

\* round(v_escape_kms, 2): the next hundredth when v is past the half.
round_velocidad(vel) ==
    IF vel.x >= vel.v * vel.v + vel.v + 1 THEN vel.v + 1 ELSE vel.v

\* A buggy variant of dificultad: every tier takes its upper edge.
dificultad_borde(v) ==
    IF v <= 500
    THEN [nota |-> "Muy baja - atmosfera ligera o inexistente",
          dificultad_escape |-> "Muy facil de escapar"]
    ELSE IF v <= 1100
    THEN [nota |-> "Similar a la Tierra - puede retener atmosfera",
          dificultad_escape |-> "Moderadamente dificil"]
    ELSE IF v <= 3000
    THEN [nota |-> "Alta - gravedad superficial significativa",
          dificultad_escape |-> "Dificil de escapar"]
    ELSE IF v <= 6000
    THEN [nota |-> "Muy alta - gigante gaseoso pequeno",
          dificultad_escape |-> "Muy dificil de escapar"]
    ELSE [nota |-> "Extremadamente alta - gigante gaseoso masivo",
          dificultad_escape |-> "Extremadamente dificil de escapar"]

\* The if/elif chain over v_escape_kms (5, 11, 30, 60 km/s): the first note
\* of `interpretacion` and dificultad_escape.
dificultad(v) ==
    IF v < 500
    THEN [nota |-> "Muy baja - atmosfera ligera o inexistente",
          dificultad_escape |-> "Muy facil de escapar"]
    ELSE IF v < 1100
    THEN [nota |-> "Similar a la Tierra - puede retener atmosfera",
          dificultad_escape |-> "Moderadamente dificil"]
    ELSE IF v < 3000
    THEN [nota |-> "Alta - gravedad superficial significativa",
          dificultad_escape |-> "Dificil de escapar"]
    ELSE IF v < 6000
    THEN [nota |-> "Muy alta - gigante gaseoso pequeno",
          dificultad_escape |-> "Muy dificil de escapar"]
    ELSE [nota |-> "Extremadamente alta - gigante gaseoso masivo",
          dificultad_escape |-> "Extremadamente dificil de escapar"]

\* The comparison with rockets (20 km/s).
nota_cohetes(v) ==
    IF v < 2000 THEN "Un cohete tipo Saturn V podria escapar"
    ELSE "Requeriria cohetes mas potentes que los actuales"

\* A buggy variant of faltan_datos: only a row without both is refused.
faltan_datos_ambos(data) == data.pl_masse.null /\ data.pl_rade.null

\* pd.isna(data['pl_masse']) or pd.isna(data['pl_rade'])
faltan_datos(data) == data.pl_masse.null \/ data.pl_rade.null

\* The resultado dictionary, for a velocity that is a number or NaN.  With a
\* NaN every comparison of the chains is false and the last branch is taken.
resultado(data, vel) ==
    [pl_masse |-> data.pl_masse,
     pl_rade |-> data.pl_rade,
     velocidad_escape_kms |-> IF vel.nan THEN None ELSE Some(round_velocidad(vel)),
     velocidad_escape_tierra |-> V_ESCAPE_TIERRA,
     ratio_vs_tierra |-> IF vel.nan THEN None ELSE Some(round2(vel.v, V_ESCAPE_TIERRA)),
     dificultad_escape |->
         IF vel.nan THEN "Extremadamente dificil de escapar"
         ELSE dificultad(vel.v).dificultad_escape,
     interpretacion |->
         IF vel.nan
         THEN <<"Extremadamente alta - gigante gaseoso masivo",
                "Requeriria cohetes mas potentes que los actuales">>
         ELSE <<dificultad(vel.v).nota, nota_cohetes(vel.v)>>]

\* The try block of calcular_velocidad_escape once the rows are there.
calculo(rs, nombre_exoplaneta) ==
    IF Len(rs) = 0
    THEN [status |-> "empty",
          message |-> Texto("No se encontro el exoplaneta", <<nombre_exoplaneta>>, <<>>),
          data |-> <<>>]
    ELSE LET data == rs[1]
             vel == velocidad_escape(data.pl_masse, data.pl_rade)
         IN  IF faltan_datos(data)
             THEN [status |-> "error",
                   message |-> Texto("no tiene datos de masa o radio necesarios para calcular velocidad de escape",
                                     <<nombre_exoplaneta>>, <<>>),
                   data |-> <<>>]
             ELSE IF vel.exc # "none" THEN error_inesperado
             ELSE [status |-> "success", count |-> 1, data |-> <<resultado(data, vel)>>]

\* v_escape_kms as the invocation left it: set once the velocity is computed.
velocidad_calculada(rs) ==
    IF Len(rs) = 0 \/ faltan_datos(rs[1]) THEN None
    ELSE LET vel == velocidad_escape(rs[1].pl_masse, rs[1].pl_rade)
         IN  IF vel.exc # "none" THEN None ELSE Some(vel.v)

calcular_velocidad_escape_resultado ==
    /\ pc = "submitted"
    /\ tool = "calcular_velocidad_escape"
    /\ \E o \in DerivationOutcomes :
          IF o.fault = "none"
          THEN Return(o, velocidad_calculada(o.rows), calculo(o.rows, args.nombre))
          ELSE Return(o, None, error_inesperado)

\* mcp.run(): the envelope is handed to the caller and the server waits for
\* the next invocation; nothing of this one is kept.
run ==
    /\ pc = "returned"
    /\ pc' = "idle"
    /\ tool' = "none"
    /\ args' = NoArgs
    /\ query' = NoQuery
    /\ descripcion' = Texto("", <<>>, <<>>)
    /\ submissions' = 0
    /\ remote' = "none"
    /\ df' = <<>>
    /\ v_escape_kms' = None
    /\ result' = NoResult

\* ------------------------------------------------------------ specification

Init ==
    /\ pc = "idle"
    /\ tool = "none"
    /\ args = NoArgs
    /\ query = NoQuery
    /\ descripcion = Texto("", <<>>, <<>>)
    /\ submissions = 0
    /\ remote = "none"
    /\ df = <<>>
    /\ v_escape_kms = None
    /\ result = NoResult

Next ==
    \/ buscar_datos_exoplaneta
    \/ listar_exoplanetas_mas_masivos
    \/ buscar_planetas_habitables
    \/ buscar_por_metodo_descubrimiento
    \/ timeline_descubrimientos
    \/ exoplanetas_mas_cercanos
    \/ busqueda_avanzada
    \/ estadisticas_metodos_descubrimiento
    \/ comparar_con_tierra
    \/ calcular_velocidad_escape
    \/ ejecutar_query_segura
    \/ comparar_con_tierra_resultado
    \/ calcular_velocidad_escape_resultado
    \/ run

Spec == Init /\ [][Next]_vars

\* ------------------------------------------------------------------ claims

NameTools == {"buscar_datos_exoplaneta", "comparar_con_tierra", "calcular_velocidad_escape"}

RowLimitedTools ==
    {"listar_exoplanetas_mas_masivos", "buscar_planetas_habitables",
     "buscar_por_metodo_descubrimiento", "exoplanetas_mas_cercanos", "busqueda_avanzada"}

\* The count/limit argument of the invocation under way and the maximum the
\* tool surface documents for it.
LimitArg ==
    IF tool \in {"buscar_por_metodo_descubrimiento", "busqueda_avanzada"}
    THEN args.limite ELSE args.numero_planetas

LimitMax ==
    CASE tool = "listar_exoplanetas_mas_masivos" -> 500
      [] tool = "buscar_planetas_habitables" -> 100
      [] tool = "buscar_por_metodo_descubrimiento" -> 200
      [] tool = "exoplanetas_mas_cercanos" -> 100
      [] tool = "busqueda_avanzada" -> 200

\* A name that is empty or made of whitespace only.
Blank(s) == \A i \in 1..Len(s) : s[i] = " "

\* The invocation under way was given arguments that fail validation.
ArgsFailValidation ==
    \/ tool \in NameTools /\ Blank(args.nombre)
    \/ tool \in RowLimitedTools /\ (LimitArg <= 0 \/ LimitArg > LimitMax)

IsEnvelope(r) ==
    /\ "status" \in DOMAIN r
    /\ r.status \in {"success", "empty", "error"}

\* C1: every invocation of every tool, whatever its arguments and whatever
\* the remote call came to, ends by returning an envelope whose status is
\* success, empty or error; nothing is raised across the tool boundary.
C1_EnvelopeAlways ==
    pc = "returned" =>
        /\ IsEnvelope(result)
        /\ "raised" \notin DOMAIN result

\* C1 witness: a derivation failure (division by a zero radius) inside
\* calcular_velocidad_escape came back as an error envelope.
C1_Witness ==
    /\ pc = "returned"
    /\ tool = "calcular_velocidad_escape"
    /\ remote = "rows"
    /\ Len(df) > 0
    /\ ~df[1].pl_masse.null
    /\ ~df[1].pl_rade.null
    /\ df[1].pl_rade.v = 0
    /\ IsEnvelope(result)
    /\ result.status = "error"

\* C2: an invocation whose arguments fail validation (a blank name, a count
\* or limit out of range) never submits a query, and it returns an error
\* envelope.
C2_NoSubmissionOnInvalid ==
    (pc # "idle" /\ ArgsFailValidation) =>
        /\ pc = "returned"
        /\ submissions = 0
        /\ remote = "none"
        /\ query = NoQuery
        /\ IsEnvelope(result)
        /\ result.status = "error"

\* C2 witness: a whitespace-only name was refused without a submission.
C2_Witness ==
    /\ pc = "returned"
    /\ tool = "comparar_con_tierra"
    /\ args.nombre = <<" ", " ">>
    /\ submissions = 0
    /\ result.status = "error"

\* Whether the number v appears in a message.
MessageContains(m, v) == \E i \in 1..Len(m.nums) : m.nums[i] = v

\* C3: in every row-limited tool a count or limit v with v <= 0 or v > max
\* returns an error envelope whose message contains v; with 1 <= v <= max
\* the validator lets it through and the query is built with row limit v.
C3_LimitValidation ==
    (pc # "idle" /\ tool \in RowLimitedTools) =>
        /\ (LimitArg <= 0 \/ LimitArg > LimitMax) =>
              /\ pc = "returned"
              /\ IsEnvelope(result)
              /\ result.status = "error"
              /\ MessageContains(result.message, LimitArg)
        /\ (1 <= LimitArg /\ LimitArg <= LimitMax) =>
              /\ submissions = 1
              /\ query.rownum = Some(LimitArg)

\* C3 witness: busqueda_avanzada refused the limit 201, naming it.
C3_Witness ==
    /\ pc = "returned"
    /\ tool = "busqueda_avanzada"
    /\ args.limite = 201
    /\ result.status = "error"
    /\ MessageContains(result.message, 201)

\* Un-doubling: every pair of quotes read back as one quote.
RECURSIVE Unescape(_)
Unescape(l) ==
    IF l = <<>> THEN <<>>
    ELSE IF Head(l) = "'" /\ Len(l) >= 2 /\ l[2] = "'"
    THEN <<"'">> \o Unescape(SubSeq(l, 3, Len(l)))
    ELSE <<Head(l)>> \o Unescape(Tail(l))

\* No run of quotes of odd length: the quotes pair up from left to right.
RECURSIVE EvenQuoteRuns(_)
EvenQuoteRuns(l) ==
    IF l = <<>> THEN TRUE
    ELSE IF Head(l) = "'"
    THEN Len(l) >= 2 /\ l[2] = "'" /\ EvenQuoteRuns(SubSeq(l, 3, Len(l)))
    ELSE EvenQuoteRuns(Tail(l))

QuoteCount(s) == Cardinality({i \in 1..Len(s) : s[i] = "'"})

\* The literal is the input with every single quote doubled.
Doubled(lit, input) ==
    /\ EvenQuoteRuns(lit)
    /\ Unescape(lit) = input
    /\ Len(lit) = Len(input) + QuoteCount(input)

\* The user-supplied string that the invocation under way interpolates for
\* a column.
InputFor(col) ==
    CASE col = "pl_name" -> args.nombre
      [] col = "discoverymethod" /\ tool = "buscar_por_metodo_descubrimiento" -> args.metodo
      [] col = "discoverymethod" /\ tool = "busqueda_avanzada" -> args.metodo.v
      [] col = "disc_locale" -> args.locale.v

\* C4: every string literal of a submitted query is the user's input with
\* every single quote doubled (no odd run of quotes, un-doubling gives the
\* input back), and the name and method tools do place their literal.
C4_LiteralsEscaped ==
    (pc \in {"submitted", "returned"} /\ submissions = 1) =>
        /\ \A i \in 1..Len(query.where) :
              query.where[i].kind = "str" =>
                  Doubled(query.where[i].lit, InputFor(query.where[i].col))
        /\ tool \in NameTools =>
              \E i \in 1..Len(query.where) :
                  query.where[i].kind = "str" /\ query.where[i].col = "pl_name"
        /\ tool = "buscar_por_metodo_descubrimiento" =>
              \E i \in 1..Len(query.where) :
                  query.where[i].kind = "str" /\ query.where[i].col = "discoverymethod"

\* C4 witness: a method made of two quotes went out as four.
C4_Witness ==
    /\ pc = "submitted"
    /\ tool = "busqueda_avanzada"
    /\ args.metodo = Some(<<"'", "'">>)
    /\ \E i \in 1..Len(query.where) :
          /\ query.where[i].col = "discoverymethod"
          /\ query.where[i].lit = <<"'", "'", "'", "'">>

\* C5: after a remote call that answered with rows, the normalizer returns
\* `empty` with an empty data list for zero rows, and `success` with count n
\* and those n rows as data for n > 0 rows.
C5_Normalization ==
    (pc = "returned" /\ tool \in NormalizerTools /\ remote = "rows") =>
        /\ Len(df) = 0 =>
              /\ result.status = "empty"
              /\ result.data = <<>>
        /\ Len(df) > 0 =>
              /\ result.status = "success"
              /\ result.count = Len(df)
              /\ result.data = df

\* C5 witness: two rows came back and were returned as a success of count 2.
C5_Witness ==
    /\ pc = "returned"
    /\ tool = "timeline_descubrimientos"
    /\ remote = "rows"
    /\ Len(df) = 2
    /\ result.status = "success"
    /\ result.count = 2

\* The tools that submit a query: all ten.
SubmittingTools == NormalizerTools \cup {"comparar_con_tierra", "calcular_velocidad_escape"}

\* C6: in every tool that submits a query, a service-level failure of the
\* remote call (the client's DALServiceError) returns an error envelope of
\* error_type service_error, and any other failure one of error_type
\* unknown, comparar_con_tierra and calcular_velocidad_escape included.
C6_ServiceErrorClassified ==
    (pc = "returned" /\ tool \in SubmittingTools) =>
        /\ remote = "DALServiceError" =>
              /\ result.status = "error"
              /\ "error_type" \in DOMAIN result
              /\ result.error_type = "service_error"
        /\ remote = "Exception" =>
              /\ result.status = "error"
              /\ "error_type" \in DOMAIN result
              /\ result.error_type = "unknown"

\* C7: comparar_con_tierra labels a non-null mass m with exactly one of four
\* labels: very light for m < 0.5, Earth-like for 0.5 <= m <= 2.0,
\* mini-Neptune for 2.0 < m <= 10.0, gas giant for m > 10.0; a null mass
\* gives a null interpretacion.
C7_MassBins ==
    (pc = "returned" /\ tool = "comparar_con_tierra" /\ remote = "rows" /\ Len(df) > 0) =>
        /\ result.status = "success"
        /\ LET m == df[1].pl_masse
               i == result.data[1].interpretacion
           IN  /\ m.null => i.null
               /\ ~m.null =>
                     /\ ~i.null
                     /\ Len(i.v) = 1
                     /\ m.v < 50 =>
                           i.v[1] = "Planeta muy ligero (posiblemente rocoso pequeno)"
                     /\ (50 <= m.v /\ m.v <= 200) =>
                           i.v[1] = "Masa similar a la Tierra (super-Tierra)"
                     /\ (200 < m.v /\ m.v <= 1000) => i.v[1] = "Mini-Neptuno"
                     /\ m.v > 1000 => i.v[1] = "Gigante gaseoso"

\* C7 witness: a mass of exactly 0.5 Earth masses was labelled Earth-like.
C7_Witness ==
    /\ pc = "returned"
    /\ tool = "comparar_con_tierra"
    /\ remote = "rows"
    /\ Len(df) > 0
    /\ df[1].pl_masse = Some(50)
    /\ result.data[1].interpretacion = Some(<<"Masa similar a la Tierra (super-Tierra)">>)

\* The first row came back with mass 1.0 and radius 1.0 (the Earth's).
EarthRow ==
    /\ pc = "returned"
    /\ tool = "calcular_velocidad_escape"
    /\ remote = "rows"
    /\ Len(df) > 0
    /\ df[1].pl_masse = Some(100)
    /\ df[1].pl_rade = Some(100)

\* C8: calcular_velocidad_escape on a row with mass 1.0 and radius 1.0
\* returns a success envelope with velocidad_escape_kms about 11.18,
\* ratio_vs_tierra about 1.00 and the difficulty label of the 'moderately
\* difficult, Earth-like' tier.
C8_EarthEndToEnd ==
    EarthRow =>
        /\ result.status = "success"
        /\ LET r == result.data[1]
           IN  /\ ~r.velocidad_escape_kms.null
               /\ r.velocidad_escape_kms.v \in 1117..1119
               /\ ~r.ratio_vs_tierra.null
               /\ r.ratio_vs_tierra.v \in 99..101
               /\ r.dificultad_escape = "Moderadamente dificil"

\* C9: when the fetched row lacks its mass or its radius,
\* calcular_velocidad_escape returns an error envelope whose message names
\* the missing mass or radius data; it raises nothing and returns no success
\* envelope carrying a null (NaN) velocity.
C9_MissingData ==
    (/\ pc = "returned"
     /\ tool = "calcular_velocidad_escape"
     /\ remote = "rows"
     /\ Len(df) > 0
     /\ (df[1].pl_masse.null \/ df[1].pl_rade.null)) =>
        /\ "raised" \notin DOMAIN result
        /\ IsEnvelope(result)
        /\ result.status = "error"
        /\ result.message.text =
              "no tiene datos de masa o radio necesarios para calcular velocidad de escape"
        /\ ~(result.status = "success" /\ result.data[1].velocidad_escape_kms.null)

\* C9 witness: a row with a mass and no radius was refused.
C9_Witness ==
    /\ pc = "returned"
    /\ tool = "calcular_velocidad_escape"
    /\ remote = "rows"
    /\ Len(df) > 0
    /\ ~df[1].pl_masse.null
    /\ df[1].pl_rade.null
    /\ result.status = "error"

\* C10: the difficulty label of calcular_velocidad_escape is decided by the
\* computed velocity v alone, over five tiers that cover v >= 0 without
\* overlap, each including its lower edge: v < 5 very easy; 5 <= v < 11
\* moderately difficult; 11 <= v < 30 difficult; 30 <= v < 60 very
\* difficult; v >= 60 extremely difficult.
C10_DifficultyTiers ==
    (/\ pc = "returned"
     /\ tool = "calcular_velocidad_escape"
     /\ IsEnvelope(result)
     /\ result.status = "success") =>
        /\ ~v_escape_kms.null
        /\ v_escape_kms.v >= 0
        /\ LET v == v_escape_kms.v
               d == result.data[1].dificultad_escape
           IN  /\ v < 500 <=> d = "Muy facil de escapar"
               /\ (500 <= v /\ v < 1100) <=> d = "Moderadamente dificil"
               /\ (1100 <= v /\ v < 3000) <=> d = "Dificil de escapar"
               /\ (3000 <= v /\ v < 6000) <=> d = "Muy dificil de escapar"
               /\ v >= 6000 <=> d = "Extremadamente dificil de escapar"

\* C10 witness: a velocity in [30.00, 30.01) km/s was labelled very difficult.
C10_Witness ==
    /\ pc = "returned"
    /\ tool = "calcular_velocidad_escape"
    /\ result.status = "success"
    /\ v_escape_kms = Some(3000)
    /\ result.data[1].dificultad_escape = "Muy dificil de escapar"

\* One optional filter of a tool: the predicate it stands for and whether
\* the invocation under way was given it (a value other than None).
Filter(col, op, param) == [col |-> col, op |-> op, supplied |-> ~param.null]

TimelineFilters ==
    <<Filter("disc_year", ">=", args.anio_inicio),
      Filter("disc_year", "<=", args.anio_fin)>>

AvanzadaFilters ==
    <<Filter("pl_masse", ">=", args.masa_min),
      Filter("pl_masse", "<=", args.masa_max),
      Filter("pl_orbper", ">=", args.periodo_min),
      Filter("pl_orbper", "<=", args.periodo_max),
      Filter("sy_dist", "<=", args.distancia_max),
      Filter("disc_year", ">=", args.anio_descubrimiento_min),
      Filter("discoverymethod", "=", args.metodo),
      Filter("disc_locale", "=", args.locale)>>

\* The built query has a predicate on `col` with operator `op`.
HasPredicate(col, op) ==
    \E i \in 1..Len(query.where) : query.where[i].col = col /\ query.where[i].op = op

\* A query of one of the two tools with optional filters was built.
FilterQueryBuilt ==
    /\ pc \in {"submitted", "returned"}
    /\ submissions = 1
    /\ tool \in {"timeline_descubrimientos", "busqueda_avanzada"}

\* C11: in timeline_descubrimientos and busqueda_avanzada the built query
\* holds the predicate of an optional filter exactly when that parameter was
\* supplied (is not None): every supplied filter contributes its predicate,
\* every absent one contributes none, and with no filter supplied the query
\* has no WHERE clause.
C11_FilterIffSupplied ==
    FilterQueryBuilt =>
        LET F == IF tool = "timeline_descubrimientos"
                 THEN TimelineFilters ELSE AvanzadaFilters
        IN  /\ \A i \in 1..Len(F) : HasPredicate(F[i].col, F[i].op) <=> F[i].supplied
            /\ Len(query.where) = Cardinality({i \in 1..Len(F) : F[i].supplied})

\* C12: an invocation submits at most one query to the remote service.  A
\* failed submission is followed by the error envelope and no second
\* submission, and comparar_con_tierra and calcular_velocidad_escape return
\* after exactly one fetch; an invocation that returned without a remote
\* outcome submitted nothing.
C12_AtMostOneSubmission ==
    /\ submissions \in {0, 1}
    /\ pc = "submitted" => submissions = 1
    /\ (pc = "returned" /\ remote \in Faults) =>
          /\ submissions = 1
          /\ IsEnvelope(result)
          /\ result.status = "error"
    /\ (pc = "returned" /\ remote = "rows") => submissions = 1
    /\ (pc = "returned" /\ remote = "none") => submissions = 0

\* C12 witness: calcular_velocidad_escape returned the error of a failed
\* submission, having submitted once.
C12_Witness ==
    /\ pc = "returned"
    /\ tool = "calcular_velocidad_escape"
    /\ remote = "DALServiceError"
    /\ submissions = 1
    /\ result.status = "error"

====
